---- MODULE Spec2Model ----
(***************************************************************************)
(* Model of components/webapi.js of node-steamcommunity:                   *)
(*   - createWebApiKey: the Web API key provisioning flow (register ->     *)
(*     pending confirmation -> finalize), with getWebApiKey as fallback;   *)
(*   - setMobileAppAccessToken / _verifyMobileAccessToken: installing and  *)
(*     re-validating the mobile access token of the session.               *)
(* JavaScript `undefined` is the value Undefined; a value is falsy when it *)
(* is Undefined or the empty string.                                       *)
(***************************************************************************)
EXTENDS Integers, Sequences, FiniteSets, TLC

\* ------------------------------------------------------------------ bounds
\* Highest clock value (seconds) the model lets time advance to.
MaxTime == 2
\* Number of later collaborator answers over which two create calls are
\* compared (C4, C9); the longest create call receives four.
MaxSteps == 4

\* ------------------------------------------------------- values and inputs
Undefined == "<undefined>"

Truthy(v) == v # Undefined /\ v # ""

\* SteamCommunity.EResult.OK / .Pending, and two other codes: one that the
\* code-to-message table knows (Fail) and one that it does not.
EResultOK == 1
EResultPending == 22
EResultFail == 2
EResultUnknown == 999

EResultNames == [c \in {EResultOK, EResultFail, EResultPending} |->
                   CASE c = EResultOK -> "OK"
                     [] c = EResultFail -> "Fail"
                     [] c = EResultPending -> "Pending"]

Domains == {Undefined, "", "example.com"}
RequestIDs == {Undefined, "", "R0", "R1"}
Secrets == {Undefined, "S"}
Options == [domain: Domains, requestID: RequestIDs, identitySecret: Secrets]

NoOptions == [domain |-> Undefined, requestID |-> Undefined, identitySecret |-> Undefined]

\* JSON body of the answer to POST /dev/requestkey
Bodies == [success: {EResultOK, EResultPending, EResultFail, EResultUnknown},
           api_key: {Undefined, "", "AAAA"},
           request_id: {Undefined, "", "R1"},
           requires_confirmation: {0, 1}]

NoBody == [success |-> 0, api_key |-> Undefined, request_id |-> Undefined,
           requires_confirmation |-> 0]

\* errors: every error value is a record of the same shape
MkError(name, message, eresult) ==
    [name |-> name, message |-> message, eresult |-> eresult]

NoError == MkError("null", <<>>, 0)

\* errors the transport (httpRequestPost / httpRequest) may hand back
TransportErrors == {MkError("TransportFailure", <<"ETIMEDOUT">>, 0),
                    MkError("TransportFailure", <<"HTTP error 429">>, 0)}

\* errors the confirmation collaborator may hand back
ConfirmationErrors == {MkError("ConfirmationFailed", <<"Could not find confirmation for object">>, 0),
                       MkError("ConfirmationFailed", <<"Invalid identity secret">>, 0)}

\* HTML page answered to GET /dev/apikey, reduced to what the regular
\* expressions of getWebApiKey look for
Pages == [email: BOOLEAN, guard: BOOLEAN, denied: BOOLEAN, key: {Undefined, "BBBB"}]

\* results handed to the callback
MkResult(confirmationRequired, apiKey, finalizeOptions) ==
    [confirmationRequired |-> confirmationRequired,
     apiKey |-> apiKey,
     finalizeOptions |-> finalizeOptions]

NoResult == MkResult(FALSE, Undefined, NoOptions)

NoPage == [email |-> FALSE, guard |-> FALSE, denied |-> FALSE, key |-> Undefined]

\* collaborator calls issued on behalf of a create call
NetCall(op, a, b) == [op |-> op, a |-> a, b |-> b]

\* ------------------------------------------------------------------- state
VARIABLES
    call,               \* the createWebApiKey call in progress (see IdleCall)
    request,            \* options the caller passed to the outermost create
    bodies,             \* registration bodies this create call has received
    replies,            \* what each collaborator handed back to this create call
    steamID,            \* this.steamID as getSteamID64() prints it, or Undefined
    mobileAccessToken,  \* this.mobileAccessToken, or NoToken
    now,                \* Math.floor(Date.now() / 1000)
    lastOp,             \* the TokenGuard operation that acted last
    lastToken,          \* the argument of the last setMobileAppAccessToken
    installed,          \* the argument of the last setMobileAppAccessToken that returned
    thrown              \* what that operation threw, or NoError

keyVars == <<call, request, bodies, replies>>
tokenVars == <<steamID, mobileAccessToken, now, lastOp, lastToken, installed, thrown>>
vars == <<call, request, bodies, replies, steamID, mobileAccessToken, now, lastOp, lastToken,
          installed, thrown>>

\* ---------------------------------------------------------- KeyProvisioner
IdleCall ==
    [pc |-> "idle",                \* idle, register, getkey, confirm, done
     options |-> NoOptions,        \* options of the innermost createWebApiKey
     finalizeOptions |-> NoOptions,\* closure variable of the Pending branch
     netlog |-> <<>>,              \* collaborator calls issued, in order
     err |-> NoError,              \* first argument given to the callback
     result |-> NoResult,          \* second argument given to the callback
     cbCount |-> 0]                \* number of times the callback was invoked

\* callback(err, result)
Callback(c, err, result) ==
    [c EXCEPT !.pc = "done", !.err = err, !.result = result, !.cbCount = @ + 1]

\* Helpers.eresultError(eresult): an error looked up in the code-to-message
\* table; the message names the raw code
eresultError(eresult) ==
    MkError("ServerRejected",
            <<IF eresult \in DOMAIN EResultNames THEN EResultNames[eresult] ELSE "Error",
              ToString(eresult)>>,
            eresult)

\* createWebApiKey with a domain check that only rejects a missing domain
createWebApiKey_UndefinedOnly(c, options) ==
    IF options.domain = Undefined
    THEN Callback(c, MkError("InvalidArgument",
                             <<"Passing a domain is required to register an API key">>, 0),
                  NoResult)
    ELSE [c EXCEPT !.pc = "register",
                   !.options = options,
                   !.finalizeOptions = NoOptions,
                   !.netlog = Append(@, NetCall("register", options.domain,
                                     IF Truthy(options.requestID) THEN options.requestID ELSE "0"))]

\* createWebApiKey(options, callback) up to the point where the POST is sent
createWebApiKey(c, options) ==
    IF ~Truthy(options.domain)
    THEN Callback(c, MkError("InvalidArgument",
                             <<"Passing a domain is required to register an API key">>, 0),
                  NoResult)
    ELSE [c EXCEPT !.pc = "register",
                   !.options = options,
                   !.finalizeOptions = NoOptions,
                   !.netlog = Append(@, NetCall("register", options.domain,
                                     IF Truthy(options.requestID) THEN options.requestID ELSE "0"))]

\* finalizeOptions preferring the caller's requestID over the echoed one
FinalizeOptions_PreferOwn(options, body) ==
    [domain |-> options.domain,
     requestID |-> IF Truthy(options.requestID) THEN options.requestID ELSE body.request_id,
     identitySecret |-> Undefined]

\* the Pending branch's finalizeOptions object
FinalizeOptions(options, body) ==
    [domain |-> options.domain,
     requestID |-> IF Truthy(body.request_id) THEN body.request_id ELSE options.requestID,
     identitySecret |-> Undefined]

\* the POST callback looking up the key even when the body carries one
OnRequestKey_AlwaysLookup(c, err, body) ==
    IF err # NoError THEN Callback(c, err, NoResult)
    ELSE CASE body.success = EResultOK ->
                [c EXCEPT !.pc = "getkey",
                          !.netlog = Append(@, NetCall("getkey", Undefined, Undefined))]
           [] body.success = EResultPending ->
                LET finalizeOptions == FinalizeOptions(c.options, body) IN
                IF Truthy(c.options.identitySecret)
                THEN [c EXCEPT !.pc = "confirm",
                               !.finalizeOptions = finalizeOptions,
                               !.netlog = Append(@, NetCall("confirm", c.options.identitySecret,
                                                            finalizeOptions.requestID))]
                ELSE Callback(c, NoError, MkResult(TRUE, Undefined, finalizeOptions))
           [] OTHER -> Callback(c, eresultError(body.success), NoResult)

\* the POST callback reporting every rejection as the generic Fail code
OnRequestKey_FixedCode(c, err, body) ==
    IF err # NoError THEN Callback(c, err, NoResult)
    ELSE CASE body.success = EResultOK ->
                IF Truthy(body.api_key)
                THEN Callback(c, NoError, MkResult(FALSE, body.api_key, NoOptions))
                ELSE [c EXCEPT !.pc = "getkey",
                               !.netlog = Append(@, NetCall("getkey", Undefined, Undefined))]
           [] body.success = EResultPending ->
                LET finalizeOptions == FinalizeOptions(c.options, body) IN
                IF Truthy(c.options.identitySecret)
                THEN [c EXCEPT !.pc = "confirm",
                               !.finalizeOptions = finalizeOptions,
                               !.netlog = Append(@, NetCall("confirm", c.options.identitySecret,
                                                            finalizeOptions.requestID))]
                ELSE Callback(c, NoError, MkResult(TRUE, Undefined, finalizeOptions))
           [] OTHER -> Callback(c, eresultError(EResultFail), NoResult)

\* the POST callback taking the Pending branch whenever the body's
\* requires_confirmation hint is set
OnRequestKey_TrustHint(c, err, body) ==
    IF err # NoError THEN Callback(c, err, NoResult)
    ELSE CASE body.success = EResultPending \/ body.requires_confirmation = 1 ->
                LET finalizeOptions == FinalizeOptions(c.options, body) IN
                IF Truthy(c.options.identitySecret)
                THEN [c EXCEPT !.pc = "confirm",
                               !.finalizeOptions = finalizeOptions,
                               !.netlog = Append(@, NetCall("confirm", c.options.identitySecret,
                                                            finalizeOptions.requestID))]
                ELSE Callback(c, NoError, MkResult(TRUE, Undefined, finalizeOptions))
           [] body.success = EResultOK ->
                IF Truthy(body.api_key)
                THEN Callback(c, NoError, MkResult(FALSE, body.api_key, NoOptions))
                ELSE [c EXCEPT !.pc = "getkey",
                               !.netlog = Append(@, NetCall("getkey", Undefined, Undefined))]
           [] OTHER -> Callback(c, eresultError(body.success), NoResult)

\* the POST callback resuming the registration while the approval it asked
\* for is still outstanding
OnRequestKey_ResumeEarly(c, err, body) ==
    IF err # NoError THEN Callback(c, err, NoResult)
    ELSE CASE body.success = EResultOK ->
                IF Truthy(body.api_key)
                THEN Callback(c, NoError, MkResult(FALSE, body.api_key, NoOptions))
                ELSE [c EXCEPT !.pc = "getkey",
                               !.netlog = Append(@, NetCall("getkey", Undefined, Undefined))]
           [] body.success = EResultPending ->
                LET finalizeOptions == FinalizeOptions(c.options, body) IN
                IF Truthy(c.options.identitySecret)
                THEN [c EXCEPT !.pc = "register",
                               !.options = finalizeOptions,
                               !.netlog = @ \o <<NetCall("confirm", c.options.identitySecret,
                                                         finalizeOptions.requestID),
                                                 NetCall("register", finalizeOptions.domain,
                                                         IF Truthy(finalizeOptions.requestID)
                                                         THEN finalizeOptions.requestID ELSE "0")>>]
                ELSE Callback(c, NoError, MkResult(TRUE, Undefined, finalizeOptions))
           [] OTHER -> Callback(c, eresultError(body.success), NoResult)

\* the callback of the POST to /dev/requestkey
OnRequestKey(c, err, body) ==
    IF err # NoError THEN Callback(c, err, NoResult)
    ELSE CASE body.success = EResultOK ->
                IF Truthy(body.api_key)
                THEN Callback(c, NoError, MkResult(FALSE, body.api_key, NoOptions))
                ELSE [c EXCEPT !.pc = "getkey",
                               !.netlog = Append(@, NetCall("getkey", Undefined, Undefined))]
           [] body.success = EResultPending ->
                LET finalizeOptions == FinalizeOptions(c.options, body) IN
                IF Truthy(c.options.identitySecret)
                THEN [c EXCEPT !.pc = "confirm",
                               !.finalizeOptions = finalizeOptions,
                               !.netlog = Append(@, NetCall("confirm", c.options.identitySecret,
                                                            finalizeOptions.requestID))]
                ELSE Callback(c, NoError, MkResult(TRUE, Undefined, finalizeOptions))
           [] OTHER -> Callback(c, eresultError(body.success), NoResult)

\* getWebApiKey: what its callback receives for a transport outcome and page
getWebApiKey(err, page) ==
    IF err # NoError THEN [err |-> err, key |-> Undefined]
    ELSE IF page.email
    THEN [err |-> MkError("Error", <<"You must have a validated email address to create a Steam Web API key.">>, 0),
          key |-> Undefined]
    ELSE IF page.guard
    THEN [err |-> MkError("Error", <<"Steam Guard Mobile Authenticator required to create a Steam Web API key">>, 0),
          key |-> Undefined]
    ELSE IF page.denied
    THEN [err |-> MkError("Error", <<"Access Denied">>, 0), key |-> Undefined]
    ELSE IF page.key # Undefined
    THEN [err |-> NoError, key |-> page.key]
    ELSE [err |-> MkError("Error", <<"No API key created for this account">>, 0),
          key |-> Undefined]

\* the lookup callback answering without a key when the lookup failed
OnGetWebApiKey_SwallowError(c, err, key) ==
    Callback(c, NoError, MkResult(FALSE, key, NoOptions))

\* the lookup callback without the return after callback(err)
OnGetWebApiKey_NoReturn(c, err, key) ==
    IF err # NoError
    THEN Callback(Callback(c, err, NoResult), NoError, MkResult(FALSE, key, NoOptions))
    ELSE Callback(c, NoError, MkResult(FALSE, key, NoOptions))

\* the callback createWebApiKey gives to getWebApiKey
OnGetWebApiKey(c, err, key) ==
    IF err # NoError THEN Callback(c, err, NoResult)
    ELSE Callback(c, NoError, MkResult(FALSE, key, NoOptions))

\* the confirmation callback resuming with the secret still attached
OnAcceptConfirmation_KeepSecret(c, err) ==
    IF err # NoError THEN Callback(c, err, NoResult)
    ELSE createWebApiKey(c, [c.finalizeOptions EXCEPT !.identitySecret = c.options.identitySecret])

\* the confirmation callback resuming whatever the collaborator answered
OnAcceptConfirmation_IgnoreError(c, err) ==
    createWebApiKey(c, c.finalizeOptions)

\* the callback createWebApiKey gives to acceptConfirmationForObject
OnAcceptConfirmation(c, err) ==
    IF err # NoError THEN Callback(c, err, NoResult)
    ELSE createWebApiKey(c, c.finalizeOptions)

\* what a collaborator handed to its callback
Reply(op, err, value) == [op |-> op, err |-> err, value |-> value]

\* --- actions
\* a caller invokes createWebApiKey(options, callback) on a session with no
\* create call in progress
Create(options) ==
    /\ call.pc \in {"idle", "done"}
    /\ call' = createWebApiKey(IdleCall, options)
    /\ request' = options
    /\ bodies' = <<>>
    /\ replies' = <<>>
    /\ UNCHANGED tokenVars

\* the registration call completes
RequestKeyReply(err, body) ==
    /\ call.pc = "register"
    /\ call' = OnRequestKey(call, err, body)
    /\ bodies' = IF err = NoError THEN Append(bodies, body) ELSE bodies
    /\ replies' = Append(replies, Reply("register", err, Undefined))
    /\ UNCHANGED <<request, tokenVars>>

\* the fetch-existing-key lookup completes
GetWebApiKeyReply(err, page) ==
    /\ call.pc = "getkey"
    /\ LET r == getWebApiKey(err, page) IN
         /\ call' = OnGetWebApiKey(call, r.err, r.key)
         /\ replies' = Append(replies, Reply("getkey", r.err, r.key))
    /\ UNCHANGED <<request, bodies, tokenVars>>

\* the confirmation collaborator completes
AcceptConfirmationReply(err) ==
    /\ call.pc = "confirm"
    /\ call' = OnAcceptConfirmation(call, err)
    /\ replies' = Append(replies, Reply("confirm", err, Undefined))
    /\ UNCHANGED <<request, bodies, tokenVars>>

InitKey ==
    /\ call = IdleCall
    /\ request = NoOptions
    /\ bodies = <<>>
    /\ replies = <<>>

NextKey ==
    \/ \E options \in Options : Create(options)
    \/ \E body \in Bodies : RequestKeyReply(NoError, body)
    \/ \E err \in TransportErrors : RequestKeyReply(err, NoBody)
    \/ \E page \in Pages : GetWebApiKeyReply(NoError, page)
    \/ \E err \in TransportErrors : GetWebApiKeyReply(err, NoPage)
    \/ AcceptConfirmationReply(NoError)
    \/ \E err \in ConfirmationErrors : AcceptConfirmationReply(err)

\* -------------------------------------------------------------- TokenGuard
\* account identifiers, as getSteamID64() prints them
SteamIDs == {"76561198000000001", "76561198000000002"}

ClaimNames == {"iss", "sub", "aud", "exp"}

\* payloads carrying all four claims; exp = 0 is a falsy expiry
FullClaims == [iss: {"steam", "steamcommunity"},
               sub: SteamIDs,
               aud: {{}, {"web", "mobile"}},
               exp: 0 .. (MaxTime + 1)]

\* the payload p without the claim k
Without(p, k) == [n \in DOMAIN p \ {k} |-> p[n]]

\* payloads that lack one claim and are not expired and for the mobile app
PartialClaims ==
    {Without(p, k) : p \in {q \in FullClaims : q.exp = MaxTime + 1 /\ "mobile" \in q.aud},
                     k \in ClaimNames}

Payloads == FullClaims \cup PartialClaims

\* a compact token: header, payload and signature
Tokens == {<<"hdr", p, "sig">> : p \in Payloads}

NoToken == <<>>

\* Helpers.decodeJwt(token): the payload part of the compact token
decodeJwt(token) == token[2]

\* decodedToken.<name>: Undefined when the payload has no such claim
Claim(decodedToken, name) ==
    IF name \in DOMAIN decodedToken THEN decodedToken[name] ELSE Undefined

\* !decodedToken.<name>
Missing(decodedToken, name) ==
    \/ name \notin DOMAIN decodedToken
    \/ name \in {"iss", "sub"} /\ decodedToken[name] = ""
    \/ name = "exp" /\ decodedToken[name] = 0

\* setMobileAppAccessToken testing the expiry before the issuer and subject
InstallError_ExpiryFirst(id, t, token) ==
    LET decodedToken == decodeJwt(token) IN
    IF ~Truthy(id)
    THEN MkError("PreconditionFailed",
                 <<"Log on to steamcommunity before setting a mobile app access token">>, 0)
    ELSE IF \E n \in ClaimNames : Missing(decodedToken, n)
    THEN MkError("MalformedToken", <<"Provided value is not a valid Steam access token">>, 0)
    ELSE IF decodedToken.exp < t
    THEN MkError("TokenExpired", <<"Provided token is expired">>, 0)
    ELSE IF decodedToken.iss = "steam"
    THEN MkError("WrongTokenKind", <<"Provided token is a refresh token, not an access token">>, 0)
    ELSE IF decodedToken.sub # id
    THEN MkError("IdentityMismatch",
                 <<"Provided token belongs to account", decodedToken.sub,
                   "but we are logged into", id>>, 0)
    ELSE IF "mobile" \notin decodedToken.aud
    THEN MkError("WrongAudience",
                 <<"Provided token is not valid for MobileApp platform type">>, 0)
    ELSE NoError

\* setMobileAppAccessToken without the audience test
InstallError_NoAudienceCheck(id, t, token) ==
    LET decodedToken == decodeJwt(token) IN
    IF ~Truthy(id)
    THEN MkError("PreconditionFailed",
                 <<"Log on to steamcommunity before setting a mobile app access token">>, 0)
    ELSE IF \E n \in ClaimNames : Missing(decodedToken, n)
    THEN MkError("MalformedToken", <<"Provided value is not a valid Steam access token">>, 0)
    ELSE IF decodedToken.iss = "steam"
    THEN MkError("WrongTokenKind", <<"Provided token is a refresh token, not an access token">>, 0)
    ELSE IF decodedToken.sub # id
    THEN MkError("IdentityMismatch",
                 <<"Provided token belongs to account", decodedToken.sub,
                   "but we are logged into", id>>, 0)
    ELSE IF decodedToken.exp < t
    THEN MkError("TokenExpired", <<"Provided token is expired">>, 0)
    ELSE NoError

\* setMobileAppAccessToken(token): the error it throws, or NoError
InstallError(id, t, token) ==
    LET decodedToken == decodeJwt(token) IN
    IF ~Truthy(id)
    THEN MkError("PreconditionFailed",
                 <<"Log on to steamcommunity before setting a mobile app access token">>, 0)
    ELSE IF \E n \in ClaimNames : Missing(decodedToken, n)
    THEN MkError("MalformedToken", <<"Provided value is not a valid Steam access token">>, 0)
    ELSE IF decodedToken.iss = "steam"
    THEN MkError("WrongTokenKind", <<"Provided token is a refresh token, not an access token">>, 0)
    ELSE IF decodedToken.sub # id
    THEN MkError("IdentityMismatch",
                 <<"Provided token belongs to account", decodedToken.sub,
                   "but we are logged into", id>>, 0)
    ELSE IF decodedToken.exp < t
    THEN MkError("TokenExpired", <<"Provided token is expired">>, 0)
    ELSE IF "mobile" \notin decodedToken.aud
    THEN MkError("WrongAudience",
                 <<"Provided token is not valid for MobileApp platform type">>, 0)
    ELSE NoError

\* isTokenInvalid looking at the expiry alone
isTokenInvalid_ExpiryOnly(id, t, token) ==
    LET decodedToken == decodeJwt(token) IN
    decodedToken.exp < t

\* isTokenInvalid looking at the subject alone
isTokenInvalid_SubjectOnly(id, t, token) ==
    LET decodedToken == decodeJwt(token) IN
    decodedToken.sub # id

\* _verifyMobileAccessToken: isTokenInvalid
isTokenInvalid(id, t, token) ==
    LET decodedToken == decodeJwt(token) IN
    \/ decodedToken.sub # id
    \/ decodedToken.exp < t

\* _verifyMobileAccessToken throwing when it finds the token invalid
verifyMobileAccessToken_ThrowOnEvict(id, t, token) ==
    IF token = NoToken
    THEN [token |-> token, thrown |-> NoError]
    ELSE IF ~Truthy(id)
    THEN [token |-> token,
          thrown |-> MkError("TypeError", <<"Cannot read properties of null">>, 0)]
    ELSE IF isTokenInvalid(id, t, token)
    THEN [token |-> NoToken,
          thrown |-> MkError("Error", <<"Mobile access token is no longer valid">>, 0)]
    ELSE [token |-> token, thrown |-> NoError]

\* _verifyMobileAccessToken(): the token it leaves and what it throws.
\* With a token set and this.steamID null, this.steamID.getSteamID64() is a
\* TypeError raised before anything is deleted.
verifyMobileAccessToken(id, t, token) ==
    IF token = NoToken
    THEN [token |-> token, thrown |-> NoError]
    ELSE IF ~Truthy(id)
    THEN [token |-> token,
          thrown |-> MkError("TypeError", <<"Cannot read properties of null">>, 0)]
    ELSE IF isTokenInvalid(id, t, token)
    THEN [token |-> NoToken, thrown |-> NoError]
    ELSE [token |-> token, thrown |-> NoError]

\* --- actions
\* setMobileAppAccessToken assigning the token before it validates it
Install_StoreFirst(token) ==
    /\ lastOp' = "install"
    /\ lastToken' = token
    /\ thrown' = InstallError(steamID, now, token)
    /\ mobileAccessToken' = token
    /\ installed' = IF thrown' = NoError THEN token ELSE installed
    /\ UNCHANGED <<steamID, now, keyVars>>

\* setMobileAppAccessToken(token)
Install(token) ==
    /\ lastOp' = "install"
    /\ lastToken' = token
    /\ thrown' = InstallError(steamID, now, token)
    /\ mobileAccessToken' = IF thrown' = NoError THEN token ELSE mobileAccessToken
    /\ installed' = IF thrown' = NoError THEN token ELSE installed
    /\ UNCHANGED <<steamID, now, keyVars>>

\* _verifyMobileAccessToken()
Revalidate ==
    /\ lastOp' = "revalidate"
    /\ LET r == verifyMobileAccessToken(steamID, now, mobileAccessToken) IN
         /\ thrown' = r.thrown
         /\ mobileAccessToken' = r.token
    /\ UNCHANGED <<steamID, now, lastToken, installed, keyVars>>

\* the session logs on as account id (this.steamID is assigned)
SetIdentity(id) ==
    /\ steamID # id
    /\ steamID' = id
    /\ lastOp' = "identity"
    /\ UNCHANGED <<mobileAccessToken, now, lastToken, installed, thrown, keyVars>>

\* the session's identity is unset again (this.steamID = null)
ClearIdentity ==
    /\ steamID # Undefined
    /\ steamID' = Undefined
    /\ lastOp' = "identity"
    /\ UNCHANGED <<mobileAccessToken, now, lastToken, installed, thrown, keyVars>>

\* a second passes
Tick ==
    /\ now < MaxTime
    /\ now' = now + 1
    /\ lastOp' = "tick"
    /\ UNCHANGED <<steamID, mobileAccessToken, lastToken, installed, thrown, keyVars>>

InitToken ==
    /\ steamID = Undefined
    /\ mobileAccessToken = NoToken
    /\ now = 1
    /\ lastOp = "none"
    /\ lastToken = NoToken
    /\ installed = NoToken
    /\ thrown = NoError

NextToken ==
    \/ \E token \in Tokens : Install(token)
    \/ Revalidate
    \/ \E id \in SteamIDs : SetIdentity(id)
    \/ ClearIdentity
    \/ Tick

\* a collaborator call of the create call in progress completes
ReplyStep ==
    \/ \E body \in Bodies : RequestKeyReply(NoError, body)
    \/ \E err \in TransportErrors : RequestKeyReply(err, NoBody)
    \/ \E page \in Pages : GetWebApiKeyReply(NoError, page)
    \/ \E err \in TransportErrors : GetWebApiKeyReply(err, NoPage)
    \/ AcceptConfirmationReply(NoError)
    \/ \E err \in ConfirmationErrors : AcceptConfirmationReply(err)

\* ---------------------------------------------------------- specifications
Init == InitKey /\ InitToken

Next == NextKey \/ NextToken

Spec == Init /\ [][Next]_vars

\* the provisioning flow alone, on a session whose token state stays put
SpecKey == Init /\ [][NextKey]_vars

\* the provisioning flow when every collaborator call completes
SpecKeyFair == SpecKey /\ WF_vars(ReplyStep)

\* the token guard alone, on a session with no create call in progress
SpecToken == Init /\ [][NextToken]_vars

\* ------------------------------------------------------------------ claims
Last(seq) == seq[Len(seq)]

\* number of collaborator calls of kind op this create call has issued
IssuedCalls(op) == Cardinality({i \in DOMAIN call.netlog : call.netlog[i].op = op})

\* the request_id the registration POST carries for the given options
SentRequestID(options) == IF Truthy(options.requestID) THEN options.requestID ELSE "0"

\* C1: a create call whose options.domain is empty or undefined completes
\* with an InvalidArgument error, and no collaborator call (registration,
\* fetch-existing-key, confirmation approval) is issued on its behalf.
C1_NoDomainFailsWithoutNetwork ==
    (call.pc # "idle" /\ ~Truthy(request.domain)) =>
        /\ call.pc = "done"
        /\ call.cbCount = 1
        /\ call.err.name = "InvalidArgument"
        /\ call.result = NoResult
        /\ call.netlog = <<>>
        /\ replies = <<>>

C1_Witness ==
    /\ call.pc = "done"
    /\ request.domain = ""
    /\ request.identitySecret = "S"
    /\ call.err.name = "InvalidArgument"

\* C2: when the registration call answers Pending and the caller supplied no
\* confirmation secret, create completes without error with
\* PendingConfirmation whose resume request has the domain of the original
\* request and the requestID the server echoed (the original requestID when
\* it echoed none); no approval call and no second registration call is made.
C2_PendingWithoutSecret ==
    (/\ ~Truthy(request.identitySecret)
     /\ Len(bodies) >= 1
     /\ bodies[1].success = EResultPending) =>
        /\ call.pc = "done"
        /\ call.cbCount = 1
        /\ call.err = NoError
        /\ call.result.confirmationRequired
        /\ call.result.apiKey = Undefined
        /\ call.result.finalizeOptions.domain = request.domain
        /\ call.result.finalizeOptions.requestID =
              (IF Truthy(bodies[1].request_id) THEN bodies[1].request_id
               ELSE request.requestID)
        /\ call.netlog = <<NetCall("register", request.domain, SentRequestID(request))>>

C2_Witness ==
    /\ call.pc = "done"
    /\ ~Truthy(request.identitySecret)
    /\ request.requestID = "R0"
    /\ Len(bodies) = 1
    /\ bodies[1].success = EResultPending
    /\ bodies[1].request_id = "R1"
    /\ call.result.finalizeOptions.requestID = "R1"

EnvReplies(pc) ==
    CASE pc = "register" ->
            {[err |-> NoError, body |-> b, page |-> NoPage] : b \in Bodies}
            \cup {[err |-> e, body |-> NoBody, page |-> NoPage] : e \in TransportErrors}
      [] pc = "getkey" ->
            {[err |-> NoError, body |-> NoBody, page |-> g] : g \in Pages}
            \cup {[err |-> e, body |-> NoBody, page |-> NoPage] : e \in TransportErrors}
      [] pc = "confirm" ->
            {[err |-> e, body |-> NoBody, page |-> NoPage] : e \in {NoError} \cup ConfirmationErrors}
      [] OTHER -> {}

\* the call c after the collaborator it awaits has answered r
Deliver(c, r) ==
    CASE c.pc = "register" -> OnRequestKey(c, r.err, r.body)
      [] c.pc = "getkey" ->
            LET k == getWebApiKey(r.err, r.page) IN OnGetWebApiKey(c, k.err, k.key)
      [] c.pc = "confirm" -> OnAcceptConfirmation(c, r.err)
      [] OTHER -> c

\* what a caller and the collaborators see of a call: where it stands, what
\* the callback received, and the collaborator call it issued last
Observable(c) ==
    [pc |-> c.pc, err |-> c.err, result |-> c.result, cbCount |-> c.cbCount,
     issued |-> IF c.netlog = <<>> THEN NetCall("none", Undefined, Undefined)
                ELSE Last(c.netlog)]

\* c1 and c2 look the same now and after every sequence of at most n answers
RECURSIVE SameFutures(_, _, _)
SameFutures(c1, c2, n) ==
    /\ Observable(c1) = Observable(c2)
    /\ n > 0 => \A r \in EnvReplies(c1.pc) :
                   SameFutures(Deliver(c1, r), Deliver(c2, r), n - 1)

\* the resume request create returns for the same request and the same first
\* answer when no secret is supplied
NoSecretResume ==
    OnRequestKey(createWebApiKey(IdleCall, [request EXCEPT !.identitySecret = Undefined]),
                 NoError, bodies[1]).result.finalizeOptions

\* C4: when the registration call answers Pending, a secret was supplied and
\* the approval collaborator succeeds, the call continues exactly as a
\* separate manual create(resumeRequest) does, resumeRequest being the resume
\* request of the no-secret path: for every sequence of later answers both
\* deliver the same error or outcome.
C4_ResumeEqualsManualCreate ==
    (/\ Truthy(request.identitySecret)
     /\ Len(bodies) = 1
     /\ bodies[1].success = EResultPending
     /\ Len(replies) = 2
     /\ replies[2] = Reply("confirm", NoError, Undefined)) =>
        /\ call.pc = "register"
        /\ SameFutures(call, createWebApiKey(IdleCall, NoSecretResume), MaxSteps)

C4_Witness ==
    /\ Truthy(request.identitySecret)
    /\ request.requestID = "R0"
    /\ Len(bodies) = 1
    /\ bodies[1].success = EResultPending
    /\ bodies[1].request_id = "R1"
    /\ replies = <<Reply("register", NoError, Undefined), Reply("confirm", NoError, Undefined)>>
    /\ call.pc = "register"

\* C5: when the registration call answers Pending, a secret was supplied and
\* the approval collaborator fails, create fails with exactly the error the
\* collaborator returned and issues no further registration call.
C5_ApprovalFailurePropagates ==
    (/\ replies # <<>>
     /\ Last(replies).op = "confirm"
     /\ Last(replies).err # NoError) =>
        /\ call.pc = "done"
        /\ call.cbCount = 1
        /\ call.err = Last(replies).err
        /\ call.result = NoResult
        /\ IssuedCalls("register") = 1
        /\ Last(call.netlog).op = "confirm"

C5_Witness ==
    /\ Len(replies) = 2
    /\ replies[2].op = "confirm"
    /\ replies[2].err \in ConfirmationErrors
    /\ bodies[1].success = EResultPending
    /\ request.identitySecret = "S"
    /\ call.pc = "done"
    /\ call.err \in ConfirmationErrors

\* C6: when the registration call answers OK with a key, create completes
\* with Issued carrying that key, and issues neither a fetch-existing-key
\* lookup nor a confirmation approval call after that answer.
C6_OkWithKeyIssued ==
    (/\ bodies # <<>>
     /\ Last(bodies).success = EResultOK
     /\ Truthy(Last(bodies).api_key)) =>
        /\ call.pc = "done"
        /\ call.cbCount = 1
        /\ call.err = NoError
        /\ call.result = MkResult(FALSE, Last(bodies).api_key, NoOptions)
        /\ IssuedCalls("getkey") = 0
        /\ IssuedCalls("confirm") = Len(bodies) - 1
        /\ Last(call.netlog).op = "register"
        /\ Last(replies).op = "register"

C6_Witness ==
    /\ Len(bodies) = 1
    /\ bodies[1].success = EResultOK
    /\ bodies[1].api_key = "AAAA"
    /\ call.pc = "done"
    /\ call.result.apiKey = "AAAA"
    /\ call.netlog = <<NetCall("register", request.domain, SentRequestID(request))>>

\* C7: when the registration call answers OK without a key, create performs
\* the fetch-existing-key lookup and completes with Issued carrying the key
\* the lookup returns; when the lookup fails, create fails with the error the
\* lookup produced.
C7_OkWithoutKeyLooksUp ==
    (/\ bodies # <<>>
     /\ Last(bodies).success = EResultOK
     /\ ~Truthy(Last(bodies).api_key)) =>
        /\ Last(call.netlog).op = "getkey"
        /\ IssuedCalls("getkey") = 1
        /\ \/ call.pc = "getkey" /\ Last(replies).op = "register" /\ call.cbCount = 0
           \/ /\ call.pc = "done"
              /\ call.cbCount = 1
              /\ Last(replies).op = "getkey"
              /\ IF Last(replies).err = NoError
                 THEN /\ call.err = NoError
                      /\ call.result = MkResult(FALSE, Last(replies).value, NoOptions)
                 ELSE /\ call.err = Last(replies).err
                      /\ call.result = NoResult

C7_Witness ==
    /\ Len(bodies) = 1
    /\ bodies[1].success = EResultOK
    /\ bodies[1].api_key = Undefined
    /\ call.pc = "done"
    /\ Last(replies) = Reply("getkey", NoError, "BBBB")
    /\ call.result.apiKey = "BBBB"

C7_WitnessFailure ==
    /\ Len(bodies) = 1
    /\ bodies[1].success = EResultOK
    /\ call.pc = "done"
    /\ Last(replies).op = "getkey"
    /\ call.err.message = <<"Access Denied">>

\* C8: when the registration call answers with a code other than OK and
\* Pending, known to the code-to-message table or not, create fails with a
\* ServerRejected error whose message contains the code, and issues no
\* further collaborator call.
C8_OtherCodeRejected ==
    (/\ bodies # <<>>
     /\ Last(bodies).success \notin {EResultOK, EResultPending}) =>
        /\ call.pc = "done"
        /\ call.cbCount = 1
        /\ call.err.name = "ServerRejected"
        /\ call.err.eresult = Last(bodies).success
        /\ \E i \in DOMAIN call.err.message :
              call.err.message[i] = ToString(Last(bodies).success)
        /\ call.result = NoResult
        /\ Last(call.netlog).op = "register"
        /\ Last(replies).op = "register"
        /\ IssuedCalls("getkey") = 0

C8_Witness ==
    /\ Len(bodies) = 1
    /\ bodies[1].success = EResultUnknown
    /\ call.pc = "done"
    /\ call.err.name = "ServerRejected"
    /\ call.err.eresult = EResultUnknown

\* the body b with the other value of the requires_confirmation hint
FlipHint(b) == [b EXCEPT !.requires_confirmation = 1 - @]

\* C9: the outcome of create depends on the registration answer only through
\* the result code, the key and the request id: whenever a registration call
\* is outstanding, two answers that differ only in the requires_confirmation
\* hint leave the call in the same state (same collaborator calls issued,
\* same error or outcome), and so does every later answer of the run: two
\* runs that differ only in hints pass through the same states.
RECURSIVE HintBlind(_, _)
HintBlind(c, n) ==
    n > 0 => \A r \in EnvReplies(c.pc) :
                /\ Deliver(c, r) = Deliver(c, [r EXCEPT !.body = FlipHint(@)])
                /\ HintBlind(Deliver(c, r), n - 1)

C9_HintIgnored ==
    call.pc = "register" => HintBlind(call, MaxSteps)

C9_Witness ==
    /\ Len(bodies) = 1
    /\ bodies[1].success = EResultOK
    /\ bodies[1].requires_confirmation = 1
    /\ Truthy(bodies[1].api_key)
    /\ call.pc = "done"
    /\ ~call.result.confirmationRequired
    /\ call.result.apiKey = bodies[1].api_key

AllClaimsPresent(d) == \A n \in ClaimNames : ~Missing(d, n)

\* C11 (as stated): install accepts a token only if its expiry is strictly
\* greater than the current time in seconds; a token that passes the earlier
\* checks and whose expiry is the current second or earlier is rejected with
\* TokenExpired and is not stored.
C11_StrictExpiry ==
    LET d == decodeJwt(lastToken) IN
    lastOp = "install" =>
        /\ thrown = NoError => d.exp > now
        /\ (/\ Truthy(steamID)
            /\ AllClaimsPresent(d)
            /\ d.iss # "steam"
            /\ d.sub = steamID
            /\ d.exp <= now) =>
              /\ thrown.name = "TokenExpired"
              /\ installed # lastToken

\* C12: install rejects with the reason of the first violated condition, in
\* the order: no identity (PreconditionFailed), a claim missing
\* (MalformedToken), issuer "steam" (WrongTokenKind), subject other than the
\* identity (IdentityMismatch), expiry in the past (TokenExpired), audience
\* without "mobile" (WrongAudience); and accepts when none is violated.
C12_FirstViolatedCondition ==
    LET d == decodeJwt(lastToken)
        identityOk == Truthy(steamID)
        wellFormed == identityOk /\ AllClaimsPresent(d)
        kindOk == wellFormed /\ d.iss # "steam"
        subjectOk == kindOk /\ d.sub = steamID
        freshOk == subjectOk /\ ~(d.exp < now)
        audienceOk == freshOk /\ "mobile" \in d.aud
    IN  lastOp = "install" =>
        /\ ~identityOk => thrown.name = "PreconditionFailed"
        /\ (identityOk /\ ~AllClaimsPresent(d)) => thrown.name = "MalformedToken"
        /\ (wellFormed /\ d.iss = "steam") => thrown.name = "WrongTokenKind"
        /\ (kindOk /\ d.sub # steamID) => thrown.name = "IdentityMismatch"
        /\ (subjectOk /\ d.exp < now) => thrown.name = "TokenExpired"
        /\ (freshOk /\ "mobile" \notin d.aud) => thrown.name = "WrongAudience"
        /\ audienceOk => thrown = NoError

\* a token violating three conditions at once is rejected for the first
C12_Witness ==
    LET d == decodeJwt(lastToken) IN
    /\ lastOp = "install"
    /\ Truthy(steamID)
    /\ AllClaimsPresent(d)
    /\ d.iss # "steam"
    /\ d.sub # steamID
    /\ d.exp < now
    /\ "mobile" \notin d.aud
    /\ thrown.name = "IdentityMismatch"

\* C13: a failing install changes no session state: the installed token
\* (absent or installed earlier) and the identity are after the call what
\* they were before it.
C13_FailedInstallChangesNothing ==
    [][(lastOp' = "install" /\ thrown' # NoError) =>
          /\ mobileAccessToken' = mobileAccessToken
          /\ steamID' = steamID
          /\ installed' = installed]_vars

\* a rejected install on a session that holds an earlier token
C13_Witness ==
    /\ lastOp = "install"
    /\ thrown # NoError
    /\ mobileAccessToken # NoToken
    /\ mobileAccessToken = installed
    /\ lastToken # mobileAccessToken

C15_RevalidateNeverThrows ==
    lastOp = "revalidate" => thrown = NoError

\* C16: revalidate is idempotent: right after a revalidate, a second
\* revalidate with no change in between leaves the token as it is and has
\* the outcome of the first.
C16_RevalidateIdempotent ==
    lastOp = "revalidate" =>
        verifyMobileAccessToken(steamID, now, mobileAccessToken)
            = [token |-> mobileAccessToken, thrown |-> thrown]

\* the first revalidate evicted an expired token; the second finds none
C16_Witness ==
    /\ lastOp = "revalidate"
    /\ mobileAccessToken = NoToken
    /\ installed # NoToken
    /\ decodeJwt(installed).sub = steamID
    /\ decodeJwt(installed).exp < now

\* C17: every successful completion of create delivers exactly one variant:
\* Issued (confirmationRequired false, a key, no resume request) or
\* PendingConfirmation (confirmationRequired true, a resume request, no key).
C17_ExactlyOneVariant ==
    (call.pc = "done" /\ call.err = NoError) =>
        LET r == call.result
            hasKey == Truthy(r.apiKey)
            hasResume == r.finalizeOptions # NoOptions
        IN  /\ hasKey # hasResume
            /\ r.confirmationRequired = hasResume
            /\ hasKey => r.apiKey # Undefined /\ r.finalizeOptions = NoOptions
            /\ hasResume => r.apiKey = Undefined /\ Truthy(r.finalizeOptions.domain)

\* a key obtained through the lookup, after the answer carried an empty key
C17_Witness ==
    /\ call.pc = "done"
    /\ call.err = NoError
    /\ Len(bodies) = 1
    /\ bodies[1].api_key = ""
    /\ ~call.result.confirmationRequired
    /\ call.result.apiKey = "BBBB"
    /\ call.result.finalizeOptions = NoOptions

\* collaborator calls of kind op issued and not yet answered
Outstanding(op) ==
    IssuedCalls(op) - Cardinality({i \in DOMAIN replies : replies[i].op = op})

\* C18: within one create call an approval call is issued only when a secret
\* was supplied and the registration call answered Pending; a resume
\* registration call is issued only after that approval call has completed
\* successfully; never are two approval calls outstanding, nor a registration
\* call and an approval call at the same time.
C18_ApprovalThenResume ==
    /\ IssuedCalls("confirm") >= 1 =>
          /\ Truthy(request.identitySecret)
          /\ Len(bodies) >= 1
          /\ bodies[1].success = EResultPending
          /\ call.netlog[2] = NetCall("confirm", request.identitySecret,
                                      FinalizeOptions(request, bodies[1]).requestID)
    /\ IssuedCalls("register") >= 2 =>
          /\ Len(replies) >= 2
          /\ replies[2] = Reply("confirm", NoError, Undefined)
          /\ call.netlog[3].op = "register"
    /\ Outstanding("confirm") \in {0, 1}
    /\ Outstanding("register") \in {0, 1}
    /\ Outstanding("confirm") + Outstanding("register") <= 1

\* the resume registration call is outstanding, the approval call answered
C18_Witness ==
    /\ IssuedCalls("register") = 2
    /\ IssuedCalls("confirm") = 1
    /\ Outstanding("register") = 1
    /\ Outstanding("confirm") = 0
    /\ call.pc = "register"

\* C19: provided every collaborator call completes, every create call invokes
\* its callback exactly once, with either an error or an outcome, after at
\* most two registration calls and at most one approval call, whatever the
\* server answers (Pending to every registration call included).
C19_CallbackOnceWithinTwoHops ==
    /\ [](/\ call.cbCount <= 1
          /\ (call.cbCount = 1) = (call.pc = "done")
          /\ call.pc = "done" => (call.err = NoError) # (call.result = NoResult)
          /\ IssuedCalls("register") <= 2
          /\ IssuedCalls("confirm") <= 1)
    /\ (call.pc \in {"register", "getkey", "confirm"}) ~> (call.pc = "done")

\* the callback invoked once after two Pending answers and one approval
C19_Witness ==
    /\ call.pc = "done"
    /\ call.cbCount = 1
    /\ IssuedCalls("register") = 2
    /\ IssuedCalls("confirm") = 1
    /\ \A i \in DOMAIN bodies : bodies[i].success = EResultPending

\* C20: the installed token is absent or exactly the raw token passed to the
\* most recent successful install; only a successful install writes it, with
\* its argument as given, and revalidate leaves it or clears it (and does
\* nothing when none is installed); a held token therefore has an issuer
\* other than "steam" and an audience containing "mobile".
C20_TokenIsLastInstalled ==
    /\ [](mobileAccessToken = NoToken \/ mobileAccessToken = installed)
    /\ [](mobileAccessToken # NoToken =>
            /\ AllClaimsPresent(decodeJwt(mobileAccessToken))
            /\ decodeJwt(mobileAccessToken).iss # "steam"
            /\ "mobile" \in decodeJwt(mobileAccessToken).aud)
    /\ [][mobileAccessToken' # mobileAccessToken =>
            \/ /\ lastOp' = "install"
               /\ thrown' = NoError
               /\ mobileAccessToken' = lastToken'
            \/ /\ lastOp' = "revalidate"
               /\ mobileAccessToken # NoToken
               /\ mobileAccessToken' = NoToken]_vars

\* the token of an earlier install, kept by a rejected install and by a
\* revalidate after it
C20_Witness ==
    /\ lastOp = "revalidate"
    /\ mobileAccessToken # NoToken
    /\ mobileAccessToken = installed
    /\ lastToken # installed
    /\ decodeJwt(lastToken).iss = "steam"

====
